---------------------------- MODULE Spec2Model ----------------------------
(***************************************************************************)
(* The product card component (ProductCard, src/unnamed/part_000): its     *)
(* React state (page URL, image URL, swatch selection map), the swatch     *)
(* selection callback updatePageAndImageUrl, and what a render returns.    *)
(*                                                                         *)
(* Strings that the code takes apart or puts together (URLs, query         *)
(* strings, swatch values, dimension names) are sequences of one-character *)
(* strings, so that String.includes, the URL parser, the `search` setter   *)
(* and URLSearchParams are modelled by what they do to the characters.     *)
(***************************************************************************)
EXTENDS Integers, Sequences, FiniteSets, TLC

(***************************************************************************)
(* JavaScript values                                                       *)
(***************************************************************************)
\* Every string-like value is a sequence of strings, so that any two can be
\* compared; undefined and null are sequences no string of the program equals.
Undefined == << "undefined" >>
Null == << "null" >>
EmptyString == << >>

(***************************************************************************)
(* Bounds of the model                                                     *)
(***************************************************************************)
\* swatch selections handled by one card in one behaviour
MaxSelections == 2

(***************************************************************************)
(* DimensionTypes (retail-actions), as the characters of their values      *)
(***************************************************************************)
DimColor == <<"c","o","l","o","r">>
DimSize == <<"s","i","z","e">>
DimNone == <<"n","o","n","e">>

(***************************************************************************)
(* Strings                                                                 *)
(***************************************************************************)
\* String.prototype.includes
Includes(s, sub) ==
    \E i \in 0..(Len(s) - Len(sub)) : SubSeq(s, i + 1, i + Len(sub)) = sub

StartsWith(s, pre) == Len(s) >= Len(pre) /\ SubSeq(s, 1, Len(pre)) = pre

\* position of the first occurrence of character ch in s, 0 when there is none
RECURSIVE FirstIndexFrom(_, _, _)
FirstIndexFrom(s, ch, i) ==
    IF i > Len(s) THEN 0
    ELSE IF s[i] = ch THEN i
    ELSE FirstIndexFrom(s, ch, i + 1)

FirstIndex(s, ch) == FirstIndexFrom(s, ch, 1)

\* String.prototype.split on one character
RECURSIVE Split(_, _)
Split(s, ch) ==
    LET i == FirstIndex(s, ch) IN
    IF i = 0 THEN << s >>
    ELSE << SubSeq(s, 1, i - 1) >> \o Split(SubSeq(s, i + 1, Len(s)), ch)

\* StringExtensions.isNullOrWhitespace
IsNullOrWhitespace(s) ==
    s \in {Undefined, Null} \/ \A i \in 1..Len(s) : s[i] = " "

(***************************************************************************)
(* Percent-encoding, for the characters the model's strings are made of    *)
(***************************************************************************)
HexCode(ch) ==
    CASE ch = " " -> <<"2","0">>
      [] ch = "%" -> <<"2","5">>
      [] ch = "&" -> <<"2","6">>
      [] ch = "+" -> <<"2","B">>
      [] ch = "/" -> <<"2","F">>
      [] ch = "=" -> <<"3","D">>
      [] ch = "?" -> <<"3","F">>
      [] OTHER -> << >>

EncodableChars == {" ", "%", "&", "+", "/", "=", "?"}

\* percent-decode: %XX becomes its character, a % that starts no code stays
RECURSIVE PercentDecode(_)
PercentDecode(s) ==
    IF s = << >> THEN << >>
    ELSE IF s[1] = "%" /\ Len(s) >= 3
            /\ \E ch \in EncodableChars : HexCode(ch) = SubSeq(s, 2, 3)
         THEN << CHOOSE ch \in EncodableChars : HexCode(ch) = SubSeq(s, 2, 3) >>
              \o PercentDecode(SubSeq(s, 4, Len(s)))
         ELSE << s[1] >> \o PercentDecode(Tail(s))

\* the URL parser's query state (a special scheme): of the model's characters
\* only the space is in the query percent-encode set
RECURSIVE QueryPercentEncode(_)
QueryPercentEncode(s) ==
    IF s = << >> THEN << >>
    ELSE (IF s[1] = " " THEN <<"%">> \o HexCode(" ") ELSE << s[1] >>)
         \o QueryPercentEncode(Tail(s))

\* application/x-www-form-urlencoded byte serializer: a space becomes +,
\* alphanumerics and * - . _ stay, every other character is percent-encoded
RECURSIVE FormEncode(_)
FormEncode(s) ==
    IF s = << >> THEN << >>
    ELSE (IF s[1] = " " THEN <<"+">>
          ELSE IF s[1] \in EncodableChars THEN <<"%">> \o HexCode(s[1])
          ELSE << s[1] >>)
         \o FormEncode(Tail(s))

\* application/x-www-form-urlencoded parsing of one name or value:
\* + becomes a space, then percent-decode
RECURSIVE PlusToSpace(_)
PlusToSpace(s) ==
    IF s = << >> THEN << >>
    ELSE << IF s[1] = "+" THEN " " ELSE s[1] >> \o PlusToSpace(Tail(s))

FormDecode(s) == PercentDecode(PlusToSpace(s))

(***************************************************************************)
(* URLSearchParams: the list of name-value pairs of a query                *)
(***************************************************************************)
ParsePair(piece) ==
    LET i == FirstIndex(piece, "=") IN
    IF i = 0 THEN [name |-> FormDecode(piece), value |-> EmptyString]
    ELSE [name |-> FormDecode(SubSeq(piece, 1, i - 1)),
          value |-> FormDecode(SubSeq(piece, i + 1, Len(piece)))]

RECURSIVE ParsePieces(_)
ParsePieces(pieces) ==
    IF pieces = << >> THEN << >>
    ELSE (IF pieces[1] = << >> THEN << >> ELSE << ParsePair(pieces[1]) >>)
         \o ParsePieces(Tail(pieces))

\* the urlencoded parser
ParseQuery(query) ==
    IF query = Null THEN << >> ELSE ParsePieces(Split(query, "&"))

\* the urlencoded serializer
RECURSIVE SerializeParams(_)
SerializeParams(list) ==
    IF list = << >> THEN << >>
    ELSE FormEncode(list[1].name) \o <<"=">> \o FormEncode(list[1].value)
         \o (IF Len(list) > 1 THEN <<"&">> ELSE << >>)
         \o SerializeParams(Tail(list))

RECURSIVE RemoveName(_, _)
RemoveName(list, name) ==
    IF list = << >> THEN << >>
    ELSE (IF list[1].name = name THEN << >> ELSE << list[1] >>)
         \o RemoveName(Tail(list), name)

(***************************************************************************)
(* URL objects: [pathname, query], query Null when the URL has none        *)
(***************************************************************************)
\* coreContext.request.apiSettings.baseUrl
BaseOrigin == <<"h",":","/","/","x">>
BasePathname == <<"/">>

\* new URL(input, baseUrl)
NewURL(input) ==
    LET rel == IF StartsWith(input, BaseOrigin)
               THEN SubSeq(input, Len(BaseOrigin) + 1, Len(input))
               ELSE input
        q == FirstIndex(rel, "?")
        path == IF q = 0 THEN rel ELSE SubSeq(rel, 1, q - 1)
    IN  IF rel = << >> THEN [pathname |-> BasePathname, query |-> Null]
        ELSE [pathname |-> IF path = << >> THEN BasePathname ELSE path,
              query |-> IF q = 0 THEN Null
                        ELSE QueryPercentEncode(SubSeq(rel, q + 1, Len(rel)))]

\* url.search (getter)
SearchOf(url) ==
    IF url.query = Null \/ url.query = << >> THEN EmptyString
    ELSE <<"?">> \o url.query

\* url.search = value (setter)
SetSearch(url, value) ==
    IF value = << >> THEN [url EXCEPT !.query = Null]
    ELSE LET input == IF value[1] = "?" THEN Tail(value) ELSE value
         IN  [url EXCEPT !.query = QueryPercentEncode(input)]

\* url.href, url.toString()
HrefOf(url) ==
    BaseOrigin \o url.pathname
    \o (IF url.query = Null THEN << >> ELSE <<"?">> \o url.query)

\* url.searchParams.delete(name)
SearchParamsDelete(url, name) ==
    LET serialized == SerializeParams(RemoveName(ParseQuery(url.query), name))
    IN  [url EXCEPT !.query = IF serialized = << >> THEN Null ELSE serialized]

(***************************************************************************)
(* Product data (ProductSearchResult) and props                            *)
(*                                                                         *)
(* An absent array (AttributeValues, Swatches, ProductImageUrls) is the    *)
(* empty sequence: the code reads these only through ?. and hasElements,   *)
(* which treat undefined and [] alike.  IsDefault is a Boolean: the code   *)
(* reads it through `=== true` and as a truth value, so undefined is FALSE.*)
(* A number is the sequence holding its decimal text.                      *)
(***************************************************************************)
NoProduct == [absent |-> TRUE]
NoSwatch == [none |-> TRUE]

\* ArrayExtensions.hasElements
HasElements(array) == Len(array) > 0

\* the truth value of a string
Truthy(s) == s \notin {Undefined, Null, EmptyString}

\* the truth value of a number
NumTruthy(n) == n \notin {Undefined, Null, <<"0">>, <<"NaN">>}

\* String.prototype.toLocaleLowerCase, for the letters key names hold
ToLocaleLowerCase(s) ==
    [i \in 1..Len(s) |-> CASE s[i] = "C" -> "c" [] s[i] = "S" -> "s" [] OTHER -> s[i]]

\* generateImageUrl (retail-actions): nothing for no image, else the image
\* under apiSettings.baseImageUrl
GenerateImageUrl(imageUrl) ==
    IF imageUrl = Undefined THEN Undefined ELSE <<"baseImageUrl/">> \o imageUrl

\* checkIfShouldDisplayAsSwatch (retail-actions): decided by the app config
CheckIfShouldDisplayAsSwatch(dimensionType, pr) ==
    dimensionType \in pr.config.swatchDimensions

(***************************************************************************)
(* The functions of ProductCard                                            *)
(***************************************************************************)
updateProductUrl(productDetailsPageUrl, queryString) ==
    LET sourceUrl == NewURL(productDetailsPageUrl)
        appended == IF SearchOf(sourceUrl) # EmptyString
                    THEN SetSearch(sourceUrl, SearchOf(sourceUrl) \o <<"&">> \o queryString)
                    ELSE SetSearch(sourceUrl, SearchOf(sourceUrl) \o queryString)
        updatedUrl == NewURL(HrefOf(appended))
    IN  updatedUrl.pathname \o SearchOf(appended)

\* mutant: the attribute is not filtered by its key name
getDefaultColorSwatchSelected_anyAttribute(productData) ==
    IF productData = NoProduct THEN NoSwatch
    ELSE LET attrs == productData.AttributeValues
             marked == {i \in 1..Len(attrs[1].Swatches) : attrs[1].Swatches[i].IsDefault = TRUE}
         IN  IF attrs = << >> THEN NoSwatch
             ELSE IF ~HasElements(attrs[1].Swatches) THEN NoSwatch
             ELSE IF marked # {}
                  THEN attrs[1].Swatches[CHOOSE i \in marked : \A j \in marked : i <= j]
                  ELSE attrs[1].Swatches[1]

\* mutant: the swatch marked default is not looked for
getDefaultColorSwatchSelected_firstSwatch(productData) ==
    IF productData = NoProduct THEN NoSwatch
    ELSE LET attrs == productData.AttributeValues
             found == {i \in 1..Len(attrs) : ToLocaleLowerCase(attrs[i].KeyName) = DimColor}
             colorAttribute == attrs[CHOOSE i \in found : \A j \in found : i <= j]
         IN  IF found = {} THEN NoSwatch
             ELSE IF ~HasElements(colorAttribute.Swatches) THEN NoSwatch
             ELSE colorAttribute.Swatches[1]

getDefaultColorSwatchSelected(productData) ==
    IF productData = NoProduct THEN NoSwatch
    ELSE LET attrs == productData.AttributeValues
             found == {i \in 1..Len(attrs) : ToLocaleLowerCase(attrs[i].KeyName) = DimColor}
             colorAttribute == attrs[CHOOSE i \in found : \A j \in found : i <= j]
             marked == {i \in 1..Len(colorAttribute.Swatches) :
                            colorAttribute.Swatches[i].IsDefault = TRUE}
         IN  IF found = {} THEN NoSwatch
             ELSE IF ~HasElements(colorAttribute.Swatches) THEN NoSwatch
             ELSE IF marked # {}
                  THEN colorAttribute.Swatches[CHOOSE i \in marked : \A j \in marked : i <= j]
                  ELSE colorAttribute.Swatches[1]

PrimaryImageUrlOf(productData) ==
    IF productData = NoProduct THEN Undefined ELSE productData.PrimaryImageUrl

getProductImageUrlFromDefaultColorSwatch(pr, productData) ==
    IF pr.config.dimensionToPreSelectInProductCard = DimNone
    THEN PrimaryImageUrlOf(productData)
    ELSE LET defaultSwatch == getDefaultColorSwatchSelected(productData)
         IN  IF defaultSwatch # NoSwatch /\ HasElements(defaultSwatch.ProductImageUrls)
             THEN GenerateImageUrl(defaultSwatch.ProductImageUrls[1])
             ELSE PrimaryImageUrlOf(productData)

getProductPageUrlFromDefaultSwatch(pr, productUrl, productData) ==
    IF pr.config.dimensionToPreSelectInProductCard = DimNone THEN productUrl
    ELSE LET defaultSwatch == getDefaultColorSwatchSelected(productData)
         IN  IF defaultSwatch = NoSwatch \/ ~Truthy(defaultSwatch.SwatchValue)
             THEN productUrl
             ELSE updateProductUrl(productUrl, DimColor \o <<"=">> \o defaultSwatch.SwatchValue)

\* the query string 'back=true' of line 190, name and value
BackParam == <<"b","a","c","k">>
BackTrue == <<"t","r","u","e">>

\* productUrl, lines 188-191: getProductPageUrlSync gives the product's Url
ProductUrlOf(pr, productData) ==
    LET productUrl == IF productData # NoProduct THEN productData.Url ELSE EmptyString
    IN  IF pr.allowBack /\ productUrl # EmptyString
        THEN updateProductUrl(productUrl, BackParam \o <<"=">> \o BackTrue)
        ELSE productUrl

\* the initial values given to useState, lines 192-195
\* (x ?? y is x unless x is undefined or null)
productImageUrlFromSwatch(pr, productData) ==
    LET fromSwatch == getProductImageUrlFromDefaultColorSwatch(pr, productData)
    IN  IF fromSwatch \in {Undefined, Null} THEN PrimaryImageUrlOf(productData)
        ELSE fromSwatch

productPageUrlFromSwatch(pr, productData) ==
    getProductPageUrlFromDefaultSwatch(pr, ProductUrlOf(pr, productData), productData)

\* the page URL updatePageAndImageUrl hands to setProductPageUrl, from the
\* page URL its closure holds
PageUrlWithSwatch(closurePageUrl, swatchItem) ==
    LET dimensionType == swatchItem.dimensionType
        queryString == dimensionType \o <<"=">> \o swatchItem.value
    IN  IF Includes(closurePageUrl, dimensionType)
        THEN updateProductUrl(
                 HrefOf(SearchParamsDelete(NewURL(closurePageUrl), dimensionType)),
                 queryString)
        ELSE updateProductUrl(closurePageUrl, queryString)

\* mutant: the image is recomputed for every dimension
ImageUrlWithSwatch_anyDimension(currentImageUrl, swatchItem) ==
    GenerateImageUrl(IF HasElements(swatchItem.productImageUrls)
                     THEN swatchItem.productImageUrls[1]
                     ELSE Undefined)

\* mutant: the last product image is taken, not the first
ImageUrlWithSwatch_lastImage(currentImageUrl, swatchItem) ==
    IF swatchItem.dimensionType = DimColor
    THEN GenerateImageUrl(IF HasElements(swatchItem.productImageUrls)
                          THEN swatchItem.productImageUrls[Len(swatchItem.productImageUrls)]
                          ELSE Undefined)
    ELSE currentImageUrl

\* the image URL after updatePageAndImageUrl has passed its early return
ImageUrlWithSwatch(currentImageUrl, swatchItem) ==
    IF swatchItem.dimensionType = DimColor
    THEN GenerateImageUrl(IF HasElements(swatchItem.productImageUrls)
                          THEN swatchItem.productImageUrls[1]
                          ELSE Undefined)
    ELSE currentImageUrl

\* Dictionary.setValue
SetValue(dictionary, key, value) ==
    [k \in (DOMAIN dictionary) \cup {key} |-> IF k = key THEN value ELSE dictionary[k]]

(***************************************************************************)
(* What a render returns                                                   *)
(***************************************************************************)
NullElement == [tag |-> "null"]
FalseElement == [tag |-> "false"]

\* one ISwatchItem of swatchItems, lines 253-269
SwatchItemOf(dimensionType, swatch) ==
    [value |-> IF swatch.SwatchValue \in {Undefined, Null} THEN EmptyString
               ELSE swatch.SwatchValue,
     dimensionType |-> dimensionType,
     productImageUrls |-> swatch.ProductImageUrls,
     isDefault |-> swatch.IsDefault]

\* the swatches of one attribute, lines 252-277
SwatchesOf(pr, item) ==
    LET dimensionType == ToLocaleLowerCase(item.KeyName)
        swatches == [i \in 1..Len(item.Swatches) |->
                        SwatchItemOf(dimensionType, item.Swatches[i])]
    IN  IF /\ pr.config.dimensionToPreSelectInProductCard # DimNone
           /\ HasElements(swatches)
           /\ ~(\E i \in 1..Len(swatches) : swatches[i].isDefault)
           /\ dimensionType = DimColor
        THEN [swatches EXCEPT ![1].isDefault = TRUE]
        ELSE swatches

\* swatchItems, lines 237-280: the attributes shown as swatches, in order
RECURSIVE SwatchItemsFrom(_, _)
SwatchItemsFrom(pr, attrs) ==
    IF attrs = << >> THEN << >>
    ELSE (IF CheckIfShouldDisplayAsSwatch(ToLocaleLowerCase(attrs[1].KeyName), pr)
          THEN << [recordId |-> attrs[1].RecordId, swatches |-> SwatchesOf(pr, attrs[1])] >>
          ELSE << >>)
         \o SwatchItemsFrom(pr, Tail(attrs))

SwatchItems(pr, productData) == SwatchItemsFrom(pr, productData.AttributeValues)

\* mutant: only undefined counts as no unit
renderProductUnitOfMeasure_undefinedOnly(unitOfMeasure) ==
    IF unitOfMeasure = Undefined THEN NullElement
    ELSE [tag |-> "div", className |-> "msc-product__unit-of-measure",
          text |-> unitOfMeasure]

renderProductUnitOfMeasure(unitOfMeasure) ==
    IF ~Truthy(unitOfMeasure) THEN NullElement
    ELSE [tag |-> "div", className |-> "msc-product__unit-of-measure",
          text |-> unitOfMeasure]

renderProductAvailability(inventoryAvailabilityLabel) ==
    IF ~Truthy(inventoryAvailabilityLabel) \/ inventoryAvailabilityLabel = EmptyString
    THEN NullElement
    ELSE [tag |-> "div", className |-> "msc-product__availability",
          text |-> inventoryAvailabilityLabel]

renderProductDimensions(swatchItems) ==
    IF ~HasElements(swatchItems) THEN NullElement
    ELSE [tag |-> "div", className |-> "msc-product__dimensions",
          children |-> swatchItems]

renderProductPlacementImage(imageSettings, gridSettings, imageUrl, fallbackImageUrl) ==
    IF ~Truthy(imageUrl) \/ ~gridSettings \/ ~imageSettings THEN NullElement
    ELSE [tag |-> "Image", src |-> imageUrl, fallBackSrc |-> fallbackImageUrl]

renderPrice(basePrice, adjustedPrice, maxVariantPrice, minVariantPrice) ==
    [tag |-> "PriceComponent",
     price |-> [BasePrice |-> basePrice,
                AdjustedPrice |-> adjustedPrice,
                CustomerContextualPrice |-> adjustedPrice,
                MaxVariantPrice |-> IF NumTruthy(maxVariantPrice) THEN maxVariantPrice
                                    ELSE adjustedPrice,
                MinVariantPrice |-> IF NumTruthy(minVariantPrice) THEN minVariantPrice
                                    ELSE adjustedPrice]]

renderDescription(description) ==
    [tag |-> "p", className |-> "msc-product__text", text |-> description]

\* format (utilities): the template with its arguments filled in, kept as the
\* template followed by the arguments
Format(template, args) == template \o args

\* Number.prototype.toFixed(2), for the ratings of the model
ToFixed2(n) == << n[1] \o ".00" >>

getRatingAriaLabel(rating, ratingAriaLabelText) ==
    IF NumTruthy(rating) /\ Truthy(ratingAriaLabelText)
    THEN Format(ratingAriaLabelText, ToFixed2(rating) \o <<"5">>)
    ELSE EmptyString

\* mutant: the template is not tested, `ratingCountAriaLabelText || ''` alone
\* stands in for a missing one
getReviewAriaLabel_countOnly(reviewCount, ratingCountAriaLabelText) ==
    IF NumTruthy(reviewCount)
    THEN Format(IF Truthy(ratingCountAriaLabelText) THEN ratingCountAriaLabelText
                ELSE EmptyString,
                reviewCount)
    ELSE EmptyString

getReviewAriaLabel(reviewCount, ratingCountAriaLabelText) ==
    IF NumTruthy(reviewCount) /\ Truthy(ratingCountAriaLabelText)
    THEN Format(ratingCountAriaLabelText, reviewCount)
    ELSE EmptyString

\* x ?? '' for a string
OrEmpty(s) == IF s \in {Undefined, Null} THEN EmptyString ELSE s

\* context.cultureFormatter.formatCurrency: the text of a price
FormatCurrency(price) ==
    IF price \in {Undefined, Null} THEN <<"$", "NaN">> ELSE <<"$">> \o price

\* renderLabel, lines 407-419: the template literal, piece by piece
renderLabel(name, price, rating, ratingAriaLabelText, reviewCount, ratingCountAriaLabelText) ==
    LET reviewCountArialableText ==
            getReviewAriaLabel(reviewCount, OrEmpty(ratingCountAriaLabelText))
    IN  OrEmpty(name) \o <<" ">> \o OrEmpty(price) \o <<" ">>
        \o getRatingAriaLabel(rating, ratingAriaLabelText)
        \o (IF Truthy(reviewCountArialableText)
            THEN <<" ">> \o reviewCountArialableText
            ELSE EmptyString)

\* mutant: only undefined counts as no rating
renderRating_undefinedOnly(pr, avgRating, totalRatings, ariaLabel) ==
    IF avgRating = Undefined THEN NullElement
    ELSE [tag |-> "RatingComponent",
          avgRating |-> avgRating,
          ratingCount |-> totalRatings,
          ariaLabel |-> getRatingAriaLabel(avgRating, ariaLabel),
          ratingCountAriaLabel |-> getReviewAriaLabel(totalRatings, pr.ratingCountAriaLabel)]

renderRating(pr, avgRating, totalRatings, ariaLabel) ==
    IF ~NumTruthy(avgRating) THEN NullElement
    ELSE LET numberRatings == IF totalRatings \in {Undefined, Null} THEN Undefined
                              ELSE totalRatings
             \* Number(undefined) is NaN
             asNumber == IF numberRatings = Undefined THEN <<"NaN">> ELSE numberRatings
         IN  [tag |-> "RatingComponent",
              avgRating |-> avgRating,
              ratingCount |-> numberRatings,
              ariaLabel |-> getRatingAriaLabel(avgRating, ariaLabel),
              ratingCountAriaLabel |-> getReviewAriaLabel(asNumber, pr.ratingCountAriaLabel)]

\* a boolean that may also be undefined (isDisabled, hasAvailableProducts)
True == << "true" >>
False == << "false" >>

\* Array.prototype.find of _renderCartButton, lines 570-577: the first entry
\* whose masterProductId is truthy and is the product's MasterProductId;
\* NoEntry for undefined
NoEntry == [none |-> TRUE]

FindProductDimensionAvailabilities(dimensionAvailabilities, productData) ==
    LET found == {i \in 1..Len(dimensionAvailabilities) :
                     /\ HasElements(dimensionAvailabilities)
                     /\ NumTruthy(dimensionAvailabilities[i].masterProductId)
                     /\ dimensionAvailabilities[i].masterProductId
                            = productData.MasterProductId}
    IN  IF found = {} THEN NoEntry
        ELSE dimensionAvailabilities[CHOOSE i \in found : \A j \in found : i <= j]

\* _renderCartButton, lines 555-596
renderCartButton(pr, productData) ==
    LET product1 == [Name |-> productData.Name,
                     Description |-> productData.Description,
                     DefaultUnitOfMeasure |-> productData.DefaultUnitOfMeasure,
                     BasePrice |-> productData.BasePrice,
                     Price |-> productData.Price,
                     AdjustedPrice |-> productData.Price,
                     MasterProductId |-> productData.MasterProductId,
                     PrimaryImageUrl |-> productData.PrimaryImageUrl]
        productDimensionAvailabilities ==
            FindProductDimensionAvailabilities(pr.dimensionAvailabilities, productData)
    IN  [tag |-> "AddToCartComponent",
         hasAvailableProducts |-> IF productDimensionAvailabilities = NoEntry
                                  THEN Undefined
                                  ELSE productDimensionAvailabilities.isDisabled,
         productAvailability |-> [AvailableQuantity |-> <<"1">>],
         product |-> product1]

\* the fragment ProductCard returns for a product, lines 597-649
CardOutput(pr, productData, pageUrl, imageUrl) ==
    [kind |-> "card",
     href |-> pageUrl,
     ariaLabel |-> renderLabel(productData.Name, FormatCurrency(productData.Price),
                       productData.AverageRating, pr.ratingAriaLabel,
                       productData.TotalRatings, pr.ratingCountAriaLabel),
     image |-> renderProductPlacementImage(pr.imageSettings, pr.gridSettings,
                   imageUrl, productData.PrimaryImageUrl),
     dimensions |-> renderProductDimensions(SwatchItems(pr, productData)),
     price |-> renderPrice(productData.BasePrice, productData.Price,
                   productData.MaxVariantPrice, productData.MinVariantPrice),
     unitOfMeasure |-> IF pr.config.unitOfMeasureDisplayType = "buyboxAndBrowse"
                       THEN renderProductUnitOfMeasure(productData.DefaultUnitOfMeasure)
                       ELSE FalseElement,
     description |-> renderDescription(productData.Description),
     rating |-> IF ~pr.config.hideRating
                THEN renderRating(pr, productData.AverageRating,
                         productData.TotalRatings, pr.ratingAriaLabel)
                ELSE FalseElement,
     availability |-> renderProductAvailability(pr.inventoryLabel),
     cartButton |-> renderCartButton(pr, productData)]

\* mutant: the test for an absent product comes after the first read of a
\* field of the product (product.RecordId, line 283), which throws a TypeError
ProductCardOutput_lateGuard(pr, productData, pageUrl, imageUrl) ==
    IF productData = NoProduct THEN [kind |-> "error"]
    ELSE CardOutput(pr, productData, pageUrl, imageUrl)

\* what ProductCard returns, lines 233-235 and 597-649
ProductCardOutput(pr, productData, pageUrl, imageUrl) ==
    IF productData = NoProduct THEN [kind |-> "null"]
    ELSE CardOutput(pr, productData, pageUrl, imageUrl)

\* the swatch items a rendered card offers for selection
OfferedSwatchItems(output) ==
    IF output.kind # "card" \/ output.dimensions = NullElement THEN {}
    ELSE UNION { {output.dimensions.children[i].swatches[j] :
                     j \in 1..Len(output.dimensions.children[i].swatches)} :
                 i \in 1..Len(output.dimensions.children) }

(***************************************************************************)
(* The inputs of the model: products and props                             *)
(***************************************************************************)
Red == <<"r","e","d">>
AmpValue == <<"a","&","b">>
\* the part of AmpValue before its ampersand, a value of its own
AmpHead == <<"a">>
SkyBlue == <<"s","k","y"," ","b">>
Medium == <<"m">>
ExtraLarge == <<"x"," ","l">>
\* a value that holds the text of another query parameter
BackValue == <<"l","&","b","a","c","k","=","0">>

\* color swatches as the product data may hold them, before IsDefault is set:
\* a plain one with two images, one whose value holds an ampersand, one whose
\* value is the start of that one, one with no product image and a space in
\* its value, one with no value
ColorSwatchKinds ==
    { [SwatchValue |-> Red, ProductImageUrls |-> << <<"red.png">>, <<"red2.png">> >>],
      [SwatchValue |-> AmpValue, ProductImageUrls |-> << <<"ab.png">> >>],
      [SwatchValue |-> AmpHead, ProductImageUrls |-> << <<"a.png">> >>],
      [SwatchValue |-> SkyBlue, ProductImageUrls |-> << >>],
      [SwatchValue |-> Undefined, ProductImageUrls |-> << <<"blank.png">> >>] }

Flagged(kind, isDefault) ==
    [SwatchValue |-> kind.SwatchValue,
     ProductImageUrls |-> kind.ProductImageUrls,
     IsDefault |-> isDefault]

\* the Swatches of a color attribute: none, one, or two different ones of
\* which at most one is marked default
ColorSwatchLists ==
    { << >> }
    \cup { << Flagged(k, d) >> : k \in ColorSwatchKinds, d \in BOOLEAN }
    \cup { << Flagged(pair[1], flags[1]), Flagged(pair[2], flags[2]) >> :
             pair \in {q \in ColorSwatchKinds \X ColorSwatchKinds : q[1] # q[2]},
             flags \in {<<FALSE, FALSE>>, <<TRUE, FALSE>>, <<FALSE, TRUE>>} }

ColorAttributes ==
    { << >> }
    \cup { << [KeyName |-> <<"C","o","l","o","r">>, RecordId |-> <<"1">>, Swatches |-> l] >> :
             l \in ColorSwatchLists }

SizeSwatches ==
    << [SwatchValue |-> Medium, ProductImageUrls |-> << <<"m.png">> >>, IsDefault |-> FALSE],
       [SwatchValue |-> ExtraLarge, ProductImageUrls |-> << <<"xl.png">> >>, IsDefault |-> TRUE],
       [SwatchValue |-> BackValue, ProductImageUrls |-> << >>, IsDefault |-> FALSE] >>

SizeAttributes ==
    { << >>,
      << [KeyName |-> <<"S","i","z","e">>, RecordId |-> <<"2">>, Swatches |-> SizeSwatches] >> }

\* what getProductPageUrlSync returns: a path, one of them holding "color"
ShirtUrl == <<"/","t","/","1",".","p">>
ColorBookUrl == <<"/","c","o","l","o","r","/","2",".","p">>
ProductUrls == {ShirtUrl, ColorBookUrl}

PrimaryImage == <<"primary.png">>

\* the product fields that only the sub-renderers read
BaselineDisplay ==
    [Name |-> <<"shirt">>, MasterProductId |-> <<"5">>,
     AverageRating |-> <<"4">>, TotalRatings |-> <<"7">>, Description |-> <<"text">>,
     DefaultUnitOfMeasure |-> <<"ea">>, BasePrice |-> <<"9">>, Price |-> <<"9">>,
     MaxVariantPrice |-> Undefined, MinVariantPrice |-> Undefined]

ProductOf(url, primaryImageUrl, attributeValues, display) ==
    [Url |-> url, PrimaryImageUrl |-> primaryImageUrl, AttributeValues |-> attributeValues,
     Name |-> display.Name, MasterProductId |-> display.MasterProductId,
     AverageRating |-> display.AverageRating, TotalRatings |-> display.TotalRatings,
     Description |-> display.Description,
     DefaultUnitOfMeasure |-> display.DefaultUnitOfMeasure,
     BasePrice |-> display.BasePrice, Price |-> display.Price,
     MaxVariantPrice |-> display.MaxVariantPrice,
     MinVariantPrice |-> display.MinVariantPrice]

BaselineProps ==
    [allowBack |-> FALSE, inventoryLabel |-> <<"in stock">>,
     dimensionAvailabilities |-> << >>,
     ratingAriaLabel |-> <<"{0} of {1}">>, ratingCountAriaLabel |-> <<"{0} reviews">>,
     imageSettings |-> TRUE, gridSettings |-> TRUE,
     config |-> [dimensionToPreSelectInProductCard |-> DimColor,
                 swatchDimensions |-> {DimColor, DimSize},
                 hideRating |-> FALSE,
                 unitOfMeasureDisplayType |-> "buyboxAndBrowse"]]

\* inputs that vary the swatch data, the page URL and the pre-selection
SelectionInputs ==
    { [product |-> ProductOf(url, primary, color \o size, BaselineDisplay),
       props |-> [BaselineProps EXCEPT
                     !.allowBack = back,
                     !.config.dimensionToPreSelectInProductCard = preSelect]] :
        url \in ProductUrls, primary \in {Undefined, PrimaryImage},
        color \in ColorAttributes, size \in SizeAttributes,
        back \in BOOLEAN, preSelect \in {DimNone, DimColor} }

BaselineAttributes ==
    << [KeyName |-> <<"C","o","l","o","r">>, RecordId |-> <<"1">>,
        Swatches |-> << Flagged(CHOOSE k \in ColorSwatchKinds : k.SwatchValue = Red, FALSE) >>] >>

BaselineProduct == ProductOf(ShirtUrl, PrimaryImage, BaselineAttributes, BaselineDisplay)

OptionalTexts(text) == {Undefined, EmptyString, text}

\* inputs that vary what the rating sub-renderer reads
RatingInputs ==
    { [product |-> [BaselineProduct EXCEPT
                       !.Name = name, !.AverageRating = avg, !.TotalRatings = total],
       props |-> [BaselineProps EXCEPT
                     !.config.hideRating = hide,
                     !.ratingAriaLabel = ratingLabel,
                     !.ratingCountAriaLabel = countLabel]] :
        name \in {Undefined, <<"shirt">>},
        avg \in {Undefined, <<"0">>, <<"4">>}, total \in {Undefined, <<"0">>, <<"7">>},
        hide \in BOOLEAN,
        ratingLabel \in OptionalTexts(<<"{0} of {1}">>),
        countLabel \in OptionalTexts(<<"{0} reviews">>) }

\* inputs that vary what the other sub-renderers read, and whether color is
\* shown as swatches
DetailInputs ==
    { [product |-> [BaselineProduct EXCEPT
                       !.Description = description,
                       !.DefaultUnitOfMeasure = unit,
                       !.BasePrice = price, !.Price = price],
       props |-> [BaselineProps EXCEPT
                     !.inventoryLabel = label,
                     !.config.unitOfMeasureDisplayType = displayType,
                     !.config.swatchDimensions = shown]] :
        description \in OptionalTexts(<<"text">>), unit \in OptionalTexts(<<"ea">>),
        price \in {Undefined, <<"9">>}, label \in OptionalTexts(<<"in stock">>),
        displayType \in {"buyboxAndBrowse", "buybox"},
        shown \in {{DimColor, DimSize}, {DimSize}} }

\* dimension availability entries: for no master product, for the master
\* product 0, for the baseline's and for another one; disabled, available or
\* not saying
AvailabilityEntries ==
    { [masterProductId |-> master, value |-> Red, isDisabled |-> disabled] :
        master \in {Undefined, <<"0">>, <<"5">>, <<"6">>},
        disabled \in {Undefined, False, True} }

\* dimensionAvailabilities: absent or empty, one entry, or two
AvailabilityLists ==
    { << >> }
    \cup { << e >> : e \in AvailabilityEntries }
    \cup { << e, f >> : e \in AvailabilityEntries, f \in AvailabilityEntries }

\* inputs that vary what the cart button reads
CartInputs ==
    { [product |-> [BaselineProduct EXCEPT !.MasterProductId = master],
       props |-> [BaselineProps EXCEPT !.dimensionAvailabilities = list]] :
        master \in {Undefined, <<"0">>, <<"5">>}, list \in AvailabilityLists }

\* inputs with no product
AbsentProductInputs ==
    { [product |-> NoProduct,
       props |-> [BaselineProps EXCEPT
                     !.allowBack = back,
                     !.inventoryLabel = label,
                     !.imageSettings = settings,
                     !.config.dimensionToPreSelectInProductCard = preSelect,
                     !.config.hideRating = hide,
                     !.config.unitOfMeasureDisplayType = displayType]] :
        back \in BOOLEAN, label \in OptionalTexts(<<"in stock">>), settings \in BOOLEAN,
        preSelect \in {DimNone, DimColor}, hide \in BOOLEAN,
        displayType \in {"buyboxAndBrowse", "buybox"} }

Inputs ==
    SelectionInputs \cup RatingInputs \cup DetailInputs \cup CartInputs
    \cup AbsentProductInputs

(***************************************************************************)
(* State                                                                   *)
(***************************************************************************)
\* ProductCard instances showing the same product with the same props
Cards == {1, 2}

VARIABLES
    product,               \* data.product
    props,                 \* the other props and context.app.config
    productPageUrl,        \* useState, line 194, of each card
    productImageUrl,       \* useState, line 195
    selectedSwatchItems,   \* useState, line 196: the Dictionary
    closurePageUrl,        \* the productPageUrl the card's current
                           \* updatePageAndImageUrl callback closed over
    renderPending,         \* a state setter has asked for a re-render
    rendered,              \* what the card's last render returned
    selections,            \* how many selections the card has handled
    lastSelection,         \* history: the last selection handled, with the
                           \* page and image URL it found
    handledSinceRender     \* history: the swatch items the card's current
                           \* callback has handled, in order

vars == << product, props, productPageUrl, productImageUrl, selectedSwatchItems,
           closurePageUrl, renderPending, rendered, selections, lastSelection,
           handledSinceRender >>

NoSelection == [none |-> TRUE]

\* the state after the first render of each card
InitFrom(inputs) ==
    \E input \in inputs :
        /\ product = input.product
        /\ props = input.props
        /\ productPageUrl = [c \in Cards |-> productPageUrlFromSwatch(props, product)]
        /\ productImageUrl = [c \in Cards |-> productImageUrlFromSwatch(props, product)]
        /\ selectedSwatchItems = [c \in Cards |-> << >>]
        /\ closurePageUrl = productPageUrl
        /\ renderPending = [c \in Cards |-> FALSE]
        /\ rendered = [c \in Cards |->
                          ProductCardOutput(props, product, productPageUrl[c],
                                            productImageUrl[c])]
        /\ selections = [c \in Cards |-> 0]
        /\ lastSelection = [c \in Cards |-> NoSelection]
        /\ handledSinceRender = [c \in Cards |-> << >>]

Init == InitFrom(Inputs)

\* updatePageAndImageUrl(coreContext, swatchItem), lines 205-231, called by the
\* swatch component of card c with one of the swatches it was rendered with
updatePageAndImageUrl(c, swatchItem) ==
    LET newPageUrl == PageUrlWithSwatch(closurePageUrl[c], swatchItem)
        newImageUrl == ImageUrlWithSwatch(productImageUrl[c], swatchItem)
    IN  /\ selections[c] < MaxSelections
        /\ swatchItem \in OfferedSwatchItems(rendered[c])
        /\ selectedSwatchItems' =
               [selectedSwatchItems EXCEPT
                   ![c] = SetValue(@, swatchItem.dimensionType, swatchItem)]
        /\ IF IsNullOrWhitespace(swatchItem.value)
           THEN UNCHANGED << productPageUrl, productImageUrl, renderPending >>
           ELSE /\ productPageUrl' = [productPageUrl EXCEPT ![c] = newPageUrl]
                /\ productImageUrl' = [productImageUrl EXCEPT ![c] = newImageUrl]
                \* React re-renders when a setter was given a new value
                /\ renderPending' =
                       [renderPending EXCEPT
                           ![c] = @ \/ newPageUrl # productPageUrl[c]
                                    \/ newImageUrl # productImageUrl[c]]
        /\ selections' = [selections EXCEPT ![c] = @ + 1]
        /\ lastSelection' =
               [lastSelection EXCEPT
                   ![c] = [swatchItem |-> swatchItem,
                           pageUrlBefore |-> productPageUrl[c],
                           imageUrlBefore |-> productImageUrl[c]]]
        /\ handledSinceRender' =
               [handledSinceRender EXCEPT ![c] = Append(@, swatchItem)]
        /\ UNCHANGED << product, props, closurePageUrl, rendered >>

\* a selection as a discrete user event: React has flushed the re-render the
\* previous event asked for before the next event is handled
SelectSwatch(c) ==
    \E swatchItem \in OfferedSwatchItems(rendered[c]) :
        /\ ~renderPending[c]
        /\ updatePageAndImageUrl(c, swatchItem)

\* the re-render a state setter asked for: ProductCard runs again, useState
\* gives the current state and useCallback a callback closed over it
Render(c) ==
    /\ renderPending[c]
    /\ rendered' = [rendered EXCEPT
                       ![c] = ProductCardOutput(props, product, productPageUrl[c],
                                                productImageUrl[c])]
    /\ closurePageUrl' = [closurePageUrl EXCEPT ![c] = productPageUrl[c]]
    /\ renderPending' = [renderPending EXCEPT ![c] = FALSE]
    /\ handledSinceRender' = [handledSinceRender EXCEPT ![c] = << >>]
    /\ UNCHANGED << product, props, productPageUrl, productImageUrl,
                    selectedSwatchItems, selections, lastSelection >>

\* a selection handled in the same batch as an earlier one: the callback of
\* the last render is called again before React has re-rendered the card, so
\* it still holds the page URL of that render
SelectSwatchInBatch(c) ==
    \E swatchItem \in OfferedSwatchItems(rendered[c]) :
        /\ renderPending[c]
        /\ updatePageAndImageUrl(c, swatchItem)

\* one card on the page
Next ==
    \/ SelectSwatch(1)
    \/ Render(1)

Spec == Init /\ [][Next]_vars

\* two cards on the page showing the same product, each handling its own
\* selections
PairInputs ==
    { input \in SelectionInputs :
        /\ input.product.Url = ShirtUrl
        /\ input.product.PrimaryImageUrl = PrimaryImage
        /\ ~input.props.allowBack
        /\ Len(input.product.AttributeValues) = 1
        /\ Len(input.product.AttributeValues[1].Swatches) = 2
        /\ \A i \in 1..2 : ~input.product.AttributeValues[1].Swatches[i].IsDefault }

InitPair == InitFrom(PairInputs)

NextPair ==
    \E c \in Cards :
        \/ SelectSwatch(c)
        \/ Render(c)

SpecPair == InitPair /\ [][NextPair]_vars

\* one card whose callback may be called several times between two renders
NextBatched ==
    \/ SelectSwatch(1)
    \/ SelectSwatchInBatch(1)
    \/ Render(1)

SpecBatched == Init /\ [][NextBatched]_vars

(***************************************************************************)
(* Notions the claims are stated with                                      *)
(***************************************************************************)
\* a selection has been handled by card c
Selected(c) == lastSelection[c] # NoSelection

SelectedItem(c) == lastSelection[c].swatchItem

\* the first product image of a swatch item, undefined when it has none
FirstProductImage(images) == IF Len(images) > 0 THEN images[1] ELSE Undefined

\* the values new URL(urlString, baseUrl).searchParams.getAll(name) returns
GetAll(urlString, name) ==
    LET list == SelectSeq(ParseQuery(NewURL(urlString).query),
                          LAMBDA p : p.name = name)
    IN  [i \in 1..Len(list) |-> list[i].value]

\* the product carries no price
NoPrices(productData) ==
    /\ productData.BasePrice = Undefined
    /\ productData.Price = Undefined
    /\ productData.MaxVariantPrice = Undefined
    /\ productData.MinVariantPrice = Undefined

\* the name-value pairs of a URL's query, as a set
ParamSet(urlString) ==
    LET list == ParseQuery(NewURL(urlString).query)
    IN  {<<list[i].name, list[i].value>> : i \in 1..Len(list)}

\* the Swatches of the product's color attribute, none when it has no such
\* attribute
ColorSwatchesOf(productData) ==
    LET attrs == productData.AttributeValues
        found == {i \in 1..Len(attrs) : ToLocaleLowerCase(attrs[i].KeyName) = DimColor}
    IN  IF found = {} THEN << >>
        ELSE attrs[CHOOSE i \in found : \A j \in found : i <= j].Swatches

MarkedDefault(swatches) == {i \in 1..Len(swatches) : swatches[i].IsDefault}

PreSelectionEnabled == props.config.dimensionToPreSelectInProductCard # DimNone

\* the text of a swatch value, undefined being no text
ValueText(value) == IF value \in {Undefined, Null} THEN EmptyString ELSE value

\* an element (not null, not false) came out of a sub-renderer
IsElement(node) == node \notin {NullElement, FalseElement}

(***************************************************************************)
(* C1: selecting a swatch for dimension D sets the page URL's query        *)
(* parameter D to the selected value, D occurring exactly once, and leaves *)
(* the value of every other dimension's parameter as it was.               *)
(***************************************************************************)
C1_SelectionSetsParameter ==
    \A c \in Cards :
        Selected(c) =>
            /\ GetAll(productPageUrl[c], SelectedItem(c).dimensionType)
                   = << SelectedItem(c).value >>
            /\ \A other \in {DimColor, DimSize} \ {SelectedItem(c).dimensionType} :
                   GetAll(productPageUrl[c], other)
                       = GetAll(lastSelection[c].pageUrlBefore, other)

(***************************************************************************)
(* C2: selecting a swatch whose dimension is not color leaves the image    *)
(* URL as it was before the selection.                                     *)
(***************************************************************************)
C2_NonColorKeepsImage ==
    \A c \in Cards :
        (Selected(c) /\ SelectedItem(c).dimensionType # DimColor)
            => productImageUrl[c] = lastSelection[c].imageUrlBefore

C2_Witness ==
    /\ Selected(1)
    /\ SelectedItem(1).dimensionType = DimSize
    /\ SelectedItem(1).value = Medium
    /\ HasElements(SelectedItem(1).productImageUrls)
    /\ productPageUrl[1] # lastSelection[1].pageUrlBefore
    /\ productImageUrl[1] = GenerateImageUrl(<<"red.png">>)

(***************************************************************************)
(* C3, as claimed: every selection of a color swatch records the swatch in *)
(* the selection map under color and sets the image URL to the one         *)
(* generated from the swatch's first product image.                        *)
(***************************************************************************)
C3_ColorSelectionSetsImage ==
    \A c \in Cards :
        (Selected(c) /\ SelectedItem(c).dimensionType = DimColor)
            => /\ DimColor \in DOMAIN selectedSwatchItems[c]
               /\ selectedSwatchItems[c][DimColor] = SelectedItem(c)
               /\ productImageUrl[c]
                      = GenerateImageUrl(FirstProductImage(SelectedItem(c).productImageUrls))

(***************************************************************************)
(* C3, amended: every selection of a color swatch records the swatch in    *)
(* the selection map under color; it sets the image URL to the one         *)
(* generated from the swatch's first product image (to none when the       *)
(* swatch has no product image) when the swatch's value is not null or     *)
(* whitespace, and leaves the image URL and the page URL as they were when *)
(* it is.                                                                  *)
(***************************************************************************)
C3_ColorSelectionSetsImageUnlessBlank ==
    \A c \in Cards :
        (Selected(c) /\ SelectedItem(c).dimensionType = DimColor)
            => /\ DimColor \in DOMAIN selectedSwatchItems[c]
               /\ selectedSwatchItems[c][DimColor] = SelectedItem(c)
               /\ IF IsNullOrWhitespace(SelectedItem(c).value)
                  THEN /\ productImageUrl[c] = lastSelection[c].imageUrlBefore
                       /\ productPageUrl[c] = lastSelection[c].pageUrlBefore
                  ELSE productImageUrl[c]
                           = GenerateImageUrl(
                                 FirstProductImage(SelectedItem(c).productImageUrls))

C3_Witness ==
    /\ Selected(1)
    /\ SelectedItem(1).dimensionType = DimColor
    /\ SelectedItem(1).value = Red
    /\ lastSelection[1].imageUrlBefore = GenerateImageUrl(<<"ab.png">>)
    /\ productImageUrl[1] = GenerateImageUrl(<<"red.png">>)
    /\ selectedSwatchItems[1][DimColor].value = Red

(***************************************************************************)
(* C4: the page URL's query parameters and the image URL are determined by *)
(* the product, the props and the selection map: two cards on the same     *)
(* product and props whose selection maps are equal have the same set of   *)
(* page URL query parameters and the same image URL.                       *)
(***************************************************************************)
C4_UrlsDeterminedBySelection ==
    selectedSwatchItems[1] = selectedSwatchItems[2]
        => /\ ParamSet(productPageUrl[1]) = ParamSet(productPageUrl[2])
           /\ productImageUrl[1] = productImageUrl[2]

(***************************************************************************)
(* C5: for a product whose attributes hold no color swatch, the image URL, *)
(* and the source of the image rendered, is the product's PrimaryImageUrl  *)
(* in every reachable state.                                               *)
(***************************************************************************)
C5_NoColorSwatchPrimaryImage ==
    (product # NoProduct /\ ColorSwatchesOf(product) = << >>)
        => \A c \in Cards :
               /\ productImageUrl[c] = product.PrimaryImageUrl
               /\ rendered[c].image # NullElement
                      => rendered[c].image.src = product.PrimaryImageUrl

C5_Witness ==
    /\ product # NoProduct
    /\ ColorSwatchesOf(product) = << >>
    /\ product.AttributeValues # << >>
    /\ PreSelectionEnabled
    /\ Selected(1)
    /\ selections[1] = 2
    /\ ~renderPending[1]
    /\ rendered[1].image # NullElement
    /\ rendered[1].image.src = PrimaryImage

(***************************************************************************)
(* C6, as claimed: with pre-selection enabled and exactly one swatch of    *)
(* the color attribute marked default, the image before any selection is   *)
(* the one generated from that swatch's first product image.               *)
(***************************************************************************)
C6_InitialImageOfDefaultSwatch ==
    (/\ product # NoProduct
     /\ PreSelectionEnabled
     /\ Cardinality(MarkedDefault(ColorSwatchesOf(product))) = 1)
        => \A c \in Cards :
               selections[c] = 0
                   => LET swatches == ColorSwatchesOf(product)
                          default == swatches[CHOOSE i \in MarkedDefault(swatches) : TRUE]
                      IN  productImageUrl[c]
                              = GenerateImageUrl(FirstProductImage(default.ProductImageUrls))

(***************************************************************************)
(* C6, amended: with pre-selection enabled and exactly one swatch of the   *)
(* color attribute marked default, the image before any selection is the   *)
(* one generated from that swatch's first product image when the swatch    *)
(* has a product image, and the product's PrimaryImageUrl when it has none.*)
(***************************************************************************)
C6_InitialImageOfDefaultSwatchOrPrimary ==
    (/\ product # NoProduct
     /\ PreSelectionEnabled
     /\ Cardinality(MarkedDefault(ColorSwatchesOf(product))) = 1)
        => \A c \in Cards :
               selections[c] = 0
                   => LET swatches == ColorSwatchesOf(product)
                          default == swatches[CHOOSE i \in MarkedDefault(swatches) : TRUE]
                          expected == IF Len(default.ProductImageUrls) > 0
                                      THEN GenerateImageUrl(default.ProductImageUrls[1])
                                      ELSE product.PrimaryImageUrl
                      IN  /\ productImageUrl[c] = expected
                          /\ rendered[c].image # NullElement
                                 => rendered[c].image.src = expected

C6_Witness ==
    /\ product # NoProduct
    /\ PreSelectionEnabled
    /\ MarkedDefault(ColorSwatchesOf(product)) = {2}
    /\ ColorSwatchesOf(product)[2].SwatchValue = Red
    /\ selections[1] = 0
    /\ rendered[1].image # NullElement
    /\ rendered[1].image.src = GenerateImageUrl(<<"red.png">>)

(***************************************************************************)
(* C7: before any selection, with pre-selection enabled and a color        *)
(* attribute that has swatches, the page URL carries color=<value> for the *)
(* swatch marked default, or the first swatch when none is marked; with    *)
(* pre-selection none, or no color swatch, no color parameter is added to  *)
(* the page URL and the image is the product's PrimaryImageUrl.            *)
(***************************************************************************)
C7_InitialPageUrlOfDefaultSwatch ==
    product # NoProduct
        => \A c \in Cards :
               selections[c] = 0
                   => LET swatches == ColorSwatchesOf(product)
                          marked == MarkedDefault(swatches)
                          default == IF marked # {}
                                     THEN swatches[CHOOSE i \in marked : \A j \in marked : i <= j]
                                     ELSE swatches[1]
                      IN  IF PreSelectionEnabled /\ swatches # << >>
                          THEN GetAll(productPageUrl[c], DimColor)
                                   = << ValueText(default.SwatchValue) >>
                          ELSE /\ productPageUrl[c] = ProductUrlOf(props, product)
                               /\ GetAll(productPageUrl[c], DimColor) = << >>
                               /\ productImageUrl[c] = product.PrimaryImageUrl

(***************************************************************************)
(* C8: with no product the card renders null, whatever the props are.      *)
(***************************************************************************)
C8_AbsentProductRendersNull ==
    product = NoProduct => \A c \in Cards : rendered[c] = [kind |-> "null"]

C8_Witness ==
    /\ product = NoProduct
    /\ props.allowBack
    /\ PreSelectionEnabled
    /\ ~props.imageSettings
    /\ rendered[1].kind = "null"
    /\ productPageUrl[1] = EmptyString

(***************************************************************************)
(* C9, as claimed: each of the five sub-renderers (unit of measure,        *)
(* availability label, description, rating, price) gives no element when   *)
(* its input is absent.                                                    *)
(***************************************************************************)
C9_SubRenderersNullOnAbsentInput ==
    \A c \in Cards :
        rendered[c].kind = "card"
            => /\ ~Truthy(product.DefaultUnitOfMeasure) => ~IsElement(rendered[c].unitOfMeasure)
               /\ ~Truthy(props.inventoryLabel) => ~IsElement(rendered[c].availability)
               /\ ~Truthy(product.Description) => ~IsElement(rendered[c].description)
               /\ ~NumTruthy(product.AverageRating) => ~IsElement(rendered[c].rating)
               /\ NoPrices(product) => ~IsElement(rendered[c].price)

(***************************************************************************)
(* C9, amended: the unit-of-measure, availability and rating sub-renderers *)
(* give no element when their input is absent; renderDescription always    *)
(* gives a paragraph element, holding the description or nothing, and      *)
(* renderPrice always gives a price element, also when the product has no  *)
(* price.                                                                  *)
(***************************************************************************)
C9_ThreeSubRenderersNullOnAbsentInput ==
    \A c \in Cards :
        rendered[c].kind = "card"
            => /\ ~Truthy(product.DefaultUnitOfMeasure) => ~IsElement(rendered[c].unitOfMeasure)
               /\ ~Truthy(props.inventoryLabel) => ~IsElement(rendered[c].availability)
               /\ ~NumTruthy(product.AverageRating) => ~IsElement(rendered[c].rating)
               /\ rendered[c].description.tag = "p"
               /\ rendered[c].description.text = product.Description
               /\ rendered[c].price.tag = "PriceComponent"

C9_Witness ==
    /\ rendered[1].kind = "card"
    /\ product.DefaultUnitOfMeasure = EmptyString
    /\ props.config.unitOfMeasureDisplayType = "buyboxAndBrowse"
    /\ props.inventoryLabel = Undefined
    /\ product.Description = Undefined
    /\ NoPrices(product)
    /\ rendered[1].unitOfMeasure = NullElement
    /\ rendered[1].availability = NullElement
    /\ rendered[1].description.tag = "p"
    /\ rendered[1].price.tag = "PriceComponent"

(***************************************************************************)
(* C10: when the product's average rating is zero or absent, the rendered  *)
(* card holds no rating element, whatever hideRating, the rating label     *)
(* templates and the total number of ratings are.                          *)
(***************************************************************************)
C10_NoRatingElementWithoutRating ==
    \A c \in Cards :
        (rendered[c].kind = "card" /\ ~NumTruthy(product.AverageRating))
            => ~IsElement(rendered[c].rating)

C10_Witness ==
    /\ rendered[1].kind = "card"
    /\ product.AverageRating = <<"0">>
    /\ product.TotalRatings = <<"7">>
    /\ ~props.config.hideRating
    /\ Truthy(props.ratingAriaLabel)
    /\ Truthy(props.ratingCountAriaLabel)
    /\ rendered[1].rating = NullElement

C11_WitnessBoth ==
    /\ rendered[1].kind = "card"
    /\ rendered[1].ariaLabel
           = <<"shirt", " ", "$", "9", " ", "{0} of {1}", "4.00", "5", " ",
               "{0} reviews", "7">>

\* the entry of dimensionAvailabilities that C12 names: the first whose
\* masterProductId is set and is the product's MasterProductId
MatchingEntries ==
    {i \in 1..Len(props.dimensionAvailabilities) :
        /\ props.dimensionAvailabilities[i].masterProductId \notin {Undefined, <<"0">>}
        /\ props.dimensionAvailabilities[i].masterProductId = product.MasterProductId}

FirstMatchingEntry ==
    props.dimensionAvailabilities[CHOOSE i \in MatchingEntries :
                                      \A j \in MatchingEntries : i <= j]

(***************************************************************************)
(* C12: the "has available stock" flag handed to the add-to-cart component *)
(* is decided by the first entry of dimensionAvailabilities whose          *)
(* masterProductId is set and equals the product's MasterProductId: the    *)
(* flag is true when that entry is not disabled, and is not true when that *)
(* entry is disabled.                                                      *)
(***************************************************************************)
C12_StockFlagFromMatchingEntry ==
    \A c \in Cards :
        (rendered[c].kind = "card" /\ MatchingEntries # {})
            => /\ FirstMatchingEntry.isDisabled # True
                     => rendered[c].cartButton.hasAvailableProducts = True
               /\ FirstMatchingEntry.isDisabled = True
                     => rendered[c].cartButton.hasAvailableProducts # True

\* the positions in card c's current batch that hold the last selection made
\* for their dimension
LastOfDimension(c) ==
    {i \in 1..Len(handledSinceRender[c]) :
        \A j \in (i + 1)..Len(handledSinceRender[c]) :
            handledSinceRender[c][j].dimensionType
                # handledSinceRender[c][i].dimensionType}

\* the callback of card c has handled selections for two dimensions since
\* the card was last rendered
TwoDimensionsSinceRender(c) == Cardinality(LastOfDimension(c)) = 2

(***************************************************************************)
(* C13: when two swatch selections for different dimensions D and E have   *)
(* been handled with no re-render between them, the page URL carries D's   *)
(* selected value in its parameter D and E's in its parameter E, and the   *)
(* selection map holds both selections.                                    *)
(***************************************************************************)
C13_BatchedSelectionsBothInUrl ==
    \A c \in Cards :
        TwoDimensionsSinceRender(c)
            => \A i \in LastOfDimension(c) :
                   LET item == handledSinceRender[c][i]
                   IN  /\ item.dimensionType \in DOMAIN selectedSwatchItems[c]
                       /\ selectedSwatchItems[c][item.dimensionType] = item
                       /\ GetAll(productPageUrl[c], item.dimensionType) = << item.value >>

(***************************************************************************)
(* C14: when allowBack is set and the product has a page URL, the page URL *)
(* holds the query parameter back exactly once, with the value true, and   *)
(* has the path of the product's URL, before any selection and after every *)
(* sequence of swatch selections.                                          *)
(***************************************************************************)
C14_BackParameterKept ==
    (product # NoProduct /\ props.allowBack /\ product.Url # EmptyString)
        => \A c \in Cards :
               /\ GetAll(productPageUrl[c], BackParam) = << BackTrue >>
               /\ NewURL(productPageUrl[c]).pathname = NewURL(product.Url).pathname

\* the swatch lists the card was rendered with, one for each attribute shown
RenderedSwatchLists(c) ==
    IF rendered[c].kind = "card" /\ IsElement(rendered[c].dimensions)
    THEN {rendered[c].dimensions.children[k] :
             k \in 1..Len(rendered[c].dimensions.children)}
    ELSE {}

\* those of them that hold color swatches
RenderedColorSwatchLists(c) ==
    {list \in RenderedSwatchLists(c) :
        Len(list.swatches) > 0 /\ list.swatches[1].dimensionType = DimColor}

\* the Swatches of the attribute a rendered list was made from
DataSwatchesOf(list) ==
    LET attrs == product.AttributeValues
    IN  attrs[CHOOSE i \in 1..Len(attrs) : attrs[i].RecordId = list.recordId].Swatches

\* the values of the color parameter of the page URL the card starts with
InitialColorParameter == GetAll(productPageUrlFromSwatch(props, product), DimColor)

(***************************************************************************)
(* C15: when pre-selection is enabled and the card is rendered with a      *)
(* color swatch list holding at least one swatch, every swatch of the list *)
(* whose value is the color parameter of the initial page URL is marked    *)
(* isDefault, and at least one swatch of the list is marked isDefault;     *)
(* when pre-selection is none, a rendered swatch is marked isDefault only  *)
(* if the product data flags it.                                           *)
(***************************************************************************)
C15_DefaultSwatchIsPreSelectedOne ==
    \A c \in Cards :
        /\ PreSelectionEnabled
              => \A list \in RenderedColorSwatchLists(c) :
                     /\ \E i \in 1..Len(list.swatches) : list.swatches[i].isDefault
                     /\ \A i \in 1..Len(list.swatches) :
                            InitialColorParameter = << list.swatches[i].value >>
                                => list.swatches[i].isDefault
        /\ ~PreSelectionEnabled
              => \A list \in RenderedSwatchLists(c) :
                     \A i \in 1..Len(list.swatches) :
                         list.swatches[i].isDefault => DataSwatchesOf(list)[i].IsDefault

=============================================================================
